---- MODULE Spec2Model ----
(***************************************************************************)
(* Model of split_audio_by_characters (src/app.py:63-105): the loop that   *)
(* exports each silence-delimited chunk to the scratch file, reads it      *)
(* back, measures its duration, sends it to the recognizer and spreads     *)
(* the recognized characters over the chunk's duration.                    *)
(*                                                                         *)
(* Times are exact rationals <<numerator, denominator>>; the Python floats *)
(* of the source agree with them up to rounding.                           *)
(***************************************************************************)
EXTENDS Integers, Sequences, FiniteSets, TLC

\* ---- bounds of the explored inputs ----
MaxChunks == 3
MaxLen == 2

\* ---- rational arithmetic standing for the float operations ----
RECURSIVE GCD(_, _)
GCD(a, b) == IF b = 0 THEN a ELSE GCD(b, a % b)

Abs(n) == IF n < 0 THEN -n ELSE n

Norm(n, d) ==
    LET g == GCD(Abs(n), d) IN <<n \div g, d \div g>>

\* current_time = 0.0
Zero == <<0, 1>>

\* x + y
RAdd(x, y) == Norm(x[1] * y[2] + y[1] * x[2], x[2] * y[2])

\* chunk_duration / len(chunk_text)
RDiv(x, n) == Norm(x[1], x[2] * n)

\* ---- inputs ----
\* durations (seconds) librosa.get_duration can report for a chunk
Durations == { <<1, 2>>, <<1, 1>>, <<2, 1>> }

\* characters the recognizer's transcripts are drawn from
Word == <<"a", "b", "c">>

Texts ==
    { SubSeq(Word, i, j) : i \in 1..Len(Word), j \in 0..Len(Word) }
        \cap UNION { [1..n -> {"a", "b", "c"}] : n \in 0..MaxLen }

Messages == { "timeout", "quota" }

NoOutcome == [kind |-> "None", text |-> <<>>, msg |-> ""]
Text(s) == [kind |-> "Text", text |-> s, msg |-> ""]
UnknownValueError == [kind |-> "UnknownValueError", text |-> <<>>, msg |-> ""]
RequestError(m) == [kind |-> "RequestError", text |-> <<>>, msg |-> m]

\* everything recognize_google can answer: a transcript or one of the two
\* exceptions the loop catches
Outcomes ==
    { Text(s) : s \in Texts } \cup { UnknownValueError }
        \cup { RequestError(m) : m \in Messages }

ChunkLists == UNION { [1..n -> Durations] : n \in 0..MaxChunks }

VARIABLES
    chunks,         \* split_on_silence result: the chunks' durations, in order
    idx,            \* number of the chunk the for loop is at (0 before the first)
    pc,             \* position inside the loop
    scratch,        \* which chunk's audio temp/chunk.wav holds (0: none of them)
    audio_data,     \* which chunk's audio recognizer.record returned
    y,              \* which chunk's samples librosa.load returned
    chunk_duration, \* librosa.get_duration(y)
    outcome,        \* what recognize_google answered for the current chunk
    calls,          \* audio sent to recognize_google so far, with the answers
    char_times,     \* the result list
    current_time    \* the running offset

vars == <<chunks, idx, pc, scratch, audio_data, y, chunk_duration, outcome,
          calls, char_times, current_time>>

Init ==
    /\ chunks \in ChunkLists
    /\ idx = 0
    /\ pc = "for"
    /\ scratch = 0
    /\ audio_data = 0
    /\ y = 0
    /\ chunk_duration = Zero
    /\ outcome = NoOutcome
    /\ calls = <<>>
    /\ char_times = <<>>
    /\ current_time = Zero

\* mutant: the export does not replace the file's content
ExportFileStale(file, i) == file

\* chunk.export(temp_chunk_path): the file now holds chunk i
ExportFile(file, i) == i

\* {char: current_time}
Entry(sym, t) == [sym |-> sym, t |-> t]

\* f"[Error: {e}]"
ErrorMarker(m) == "[Error: " \o m \o "]"

\* for chunk in chunks: chunk.export(temp_chunk_path, format="wav")
Export ==
    /\ pc = "for"
    /\ idx < Len(chunks)
    /\ idx' = idx + 1
    /\ scratch' = ExportFile(scratch, idx + 1)
    /\ pc' = "record"
    /\ UNCHANGED <<chunks, audio_data, y, chunk_duration, outcome, calls,
                   char_times, current_time>>

\* audio_data = recognizer.record(source)
Record ==
    /\ pc = "record"
    /\ audio_data' = scratch
    /\ pc' = "load"
    /\ UNCHANGED <<chunks, idx, scratch, y, chunk_duration, outcome, calls,
                   char_times, current_time>>

\* y, sr = librosa.load(temp_chunk_path); chunk_duration = get_duration(y)
Load ==
    /\ pc = "load"
    /\ y' = scratch
    /\ chunk_duration' = chunks[scratch]
    /\ pc' = "recognize"
    /\ UNCHANGED <<chunks, idx, scratch, audio_data, outcome, calls,
                   char_times, current_time>>

\* recognizer.recognize_google(audio_data, language="ja-JP")
Recognize ==
    /\ pc = "recognize"
    /\ \E o \in Outcomes :
          /\ outcome' = o
          /\ calls' = Append(calls, [audio |-> audio_data, answer |-> o])
    /\ pc' = "align"
    /\ UNCHANGED <<chunks, idx, scratch, audio_data, y, chunk_duration,
                   char_times, current_time>>

\* mutant: the offset advances before the character is appended
RECURSIVE CharLoopLate(_, _, _, _, _)
CharLoopLate(ct, t, rest, d, n) ==
    IF rest = <<>>
    THEN [char_times |-> ct, current_time |-> t]
    ELSE CharLoopLate(Append(ct, [sym |-> Head(rest),
                                  t |-> RAdd(t, RDiv(d, n))]),
                      RAdd(t, RDiv(d, n)), Tail(rest), d, n)

\* mutant: the text is walked from its last character to its first
RECURSIVE CharLoopReversed(_, _, _, _, _)
CharLoopReversed(ct, t, rest, d, n) ==
    IF rest = <<>>
    THEN [char_times |-> ct, current_time |-> t]
    ELSE CharLoopReversed(Append(ct, [sym |-> rest[Len(rest)], t |-> t]),
                          RAdd(t, RDiv(d, n)),
                          SubSeq(rest, 1, Len(rest) - 1), d, n)

\* for char in chunk_text: append {char: current_time}, then advance
RECURSIVE CharLoop(_, _, _, _, _)
CharLoop(ct, t, rest, d, n) ==
    IF rest = <<>>
    THEN [char_times |-> ct, current_time |-> t]
    ELSE CharLoop(Append(ct, Entry(Head(rest), t)), RAdd(t, RDiv(d, n)),
                  Tail(rest), d, n)

\* the try body after recognize_google returned chunk_text
AlignText ==
    /\ pc = "align"
    /\ outcome.kind = "Text"
    /\ LET r == CharLoop(char_times, current_time, outcome.text,
                         chunk_duration, Len(outcome.text))
       IN /\ char_times' = r.char_times
          /\ current_time' = r.current_time
    /\ pc' = "for"
    /\ UNCHANGED <<chunks, idx, scratch, audio_data, y, chunk_duration,
                   outcome, calls>>

\* mutant: the offset is set to the chunk's duration instead of advanced
AlignUnknownAssign ==
    /\ pc = "align"
    /\ outcome.kind = "UnknownValueError"
    /\ char_times' = Append(char_times, [sym |-> " ", t |-> current_time])
    /\ current_time' = chunk_duration
    /\ pc' = "for"
    /\ UNCHANGED <<chunks, idx, scratch, audio_data, y, chunk_duration,
                   outcome, calls>>

\* mutant: the blank entry is appended after the offset advanced
AlignUnknownLate ==
    /\ pc = "align"
    /\ outcome.kind = "UnknownValueError"
    /\ current_time' = RAdd(current_time, chunk_duration)
    /\ char_times' = Append(char_times, [sym |-> " ", t |-> current_time'])
    /\ pc' = "for"
    /\ UNCHANGED <<chunks, idx, scratch, audio_data, y, chunk_duration,
                   outcome, calls>>

\* except sr_recog.UnknownValueError
AlignUnknown ==
    /\ pc = "align"
    /\ outcome.kind = "UnknownValueError"
    /\ char_times' = Append(char_times, Entry(" ", current_time))
    /\ current_time' = RAdd(current_time, chunk_duration)
    /\ pc' = "for"
    /\ UNCHANGED <<chunks, idx, scratch, audio_data, y, chunk_duration,
                   outcome, calls>>

\* mutant: the error branch advances the offset like the other two
AlignErrorAdvancing ==
    /\ pc = "align"
    /\ outcome.kind = "RequestError"
    /\ char_times' = Append(char_times,
                            [sym |-> "[Error: " \o outcome.msg \o "]",
                             t |-> current_time])
    /\ current_time' = RAdd(current_time, chunk_duration)
    /\ pc' = "for"
    /\ UNCHANGED <<chunks, idx, scratch, audio_data, y, chunk_duration,
                   outcome, calls>>

\* except sr_recog.RequestError as e
AlignError ==
    /\ pc = "align"
    /\ outcome.kind = "RequestError"
    /\ char_times' = Append(char_times, Entry(ErrorMarker(outcome.msg),
                                              current_time))
    /\ pc' = "for"
    /\ UNCHANGED <<chunks, idx, scratch, audio_data, y, chunk_duration,
                   outcome, calls, current_time>>

\* return char_times
Return ==
    /\ pc = "for"
    /\ idx = Len(chunks)
    /\ pc' = "return"
    /\ UNCHANGED <<chunks, idx, scratch, audio_data, y, chunk_duration,
                   outcome, calls, char_times, current_time>>

Next ==
    \/ Export
    \/ Record
    \/ Load
    \/ Recognize
    \/ AlignText
    \/ AlignUnknown
    \/ AlignError
    \/ Return

Spec == Init /\ [][Next]_vars

TypeOK ==
    /\ idx \in 0..Len(chunks)
    /\ pc \in {"for", "record", "load", "recognize", "align", "return"}

\* ---- properties ----

\* C1: a chunk recognized as a text s of n > 0 characters, of duration d,
\* aligned from offset chunk_start, appends exactly n entries, the i-th
\* (i = 0..n-1) being s[i] at chunk_start + i*d/n, and leaves the offset at
\* chunk_start + d.
C1_TextSpread ==
    [][ (pc = "align" /\ outcome.kind = "Text" /\ Len(outcome.text) > 0) =>
          LET s == outcome.text
              n == Len(s)
              d == chunks[idx]
              before == Len(char_times)
          IN /\ Len(char_times') = before + n
             /\ SubSeq(char_times', 1, before) = char_times
             /\ \A i \in 0..(n - 1) :
                   /\ char_times'[before + i + 1].sym = s[i + 1]
                   /\ char_times'[before + i + 1].t =
                        RAdd(current_time, Norm(i * d[1], n * d[2]))
             /\ current_time' = RAdd(current_time, d) ]_vars

\* a two-character chunk has just been aligned
C1_Witness ==
    /\ pc = "for"
    /\ idx = 2
    /\ calls[2].answer = Text(<<"a", "b">>)
    /\ Len(char_times) >= 2
    /\ char_times[Len(char_times)].sym = "b"

\* C2: a chunk recognized as the empty string appends exactly one blank
\* entry at the running offset and advances the offset by the chunk's
\* duration.
C2_EmptyTextBlank ==
    [][ (pc = "align" /\ outcome = Text(<<>>)) =>
          /\ char_times' = Append(char_times, Entry(" ", current_time))
          /\ current_time' = RAdd(current_time, chunks[idx]) ]_vars

\* C3: after any number of chunks the output has at least one entry per
\* chunk processed.
C3_EntryPerChunk ==
    pc \in {"for", "return"} => Len(char_times) >= idx

\* C4: after any number of chunks the running offset is the sum of the
\* durations of the chunks consumed.
C4_OffsetIsSumOfDurations ==
    LET RECURSIVE Sum(_)
        Sum(k) == IF k = 0 THEN <<0, 1>> ELSE RAdd(Sum(k - 1), chunks[k])
    IN pc \in {"for", "return"} => current_time = Sum(idx)

\* C5: a chunk whose recognition raises the service error m appends exactly
\* one entry, the error marker of m at the running offset, leaves the
\* offset unchanged and goes back to the loop head for the next chunk.
C5_ErrorMarker ==
    [][ (pc = "align" /\ outcome.kind = "RequestError") =>
          /\ char_times' =
                Append(char_times,
                       [sym |-> "[Error: " \o calls[idx].answer.msg \o "]",
                        t |-> current_time])
          /\ current_time' = current_time
          /\ pc' = "for"
          /\ idx' = idx ]_vars

\* a service error was recorded after the offset had advanced, and the
\* loop went on to the next chunk
C5_Witness ==
    /\ pc = "record"
    /\ idx = 3
    /\ calls[1].answer = UnknownValueError
    /\ calls[2].answer = RequestError("quota")
    /\ Len(char_times) = 2
    /\ char_times[2].sym = "[Error: quota]"
    /\ current_time = chunks[1]

\* C7: the onsets of the entries never decrease along the output.
C7_OnsetsNonDecreasing ==
    \A i, j \in 1..Len(char_times) :
        i <= j => char_times[i].t[1] * char_times[j].t[2]
                    <= char_times[j].t[1] * char_times[i].t[2]

\* an output made of text, blank and error entries of three chunks
C7_Witness ==
    /\ pc = "return"
    /\ Len(calls) = 3
    /\ { calls[k].answer.kind : k \in 1..3 }
          = {"Text", "UnknownValueError", "RequestError"}
    /\ Len(char_times) >= 4

\* C8: a chunk in which no speech is detected appends exactly one " "
\* entry at the offset the chunk started from and advances the offset by
\* the chunk's duration.
C8_NoSpeechBlank ==
    [][ (pc = "align" /\ outcome.kind = "UnknownValueError") =>
          /\ char_times' =
                Append(char_times, [sym |-> " ", t |-> current_time])
          /\ current_time' = RAdd(current_time, chunks[idx]) ]_vars

\* a no-speech chunk was aligned from a non-zero offset
C8_Witness ==
    /\ pc = "for"
    /\ idx = 2
    /\ calls[2].answer = UnknownValueError
    /\ calls[1].answer.kind = "Text"
    /\ char_times[Len(char_times)] = Entry(" ", chunks[1])
    /\ current_time = RAdd(chunks[1], chunks[2])

\* the symbols of the entries of char_times from position k on
Syms(ct, k) == [i \in 1..(Len(ct) - k) |-> ct[k + i].sym]

\* C9: the output keeps the input order: chunks are taken in list order,
\* each chunk's entries are appended after all earlier ones, a text's
\* characters left to right; and chunks (1.0, "ab"), (0.5, no speech),
\* (2.0, "c") give [("a",0.0), ("b",0.5), (" ",1.0), ("c",1.5)].
C9_OrderPreserved ==
    /\ [][ /\ idx' \in {idx, idx + 1}
           /\ Len(char_times') >= Len(char_times)
           /\ SubSeq(char_times', 1, Len(char_times)) = char_times
           /\ (pc = "align" /\ outcome.kind = "Text") =>
                 Syms(char_times', Len(char_times)) = outcome.text ]_vars
    /\ [](( /\ pc = "return"
            /\ chunks = << <<1, 1>>, <<1, 2>>, <<2, 1>> >>
            /\ [k \in 1..Len(calls) |-> calls[k].answer]
                 = << Text(<<"a", "b">>), UnknownValueError, Text(<<"c">>) >> )
           => char_times = << [sym |-> "a", t |-> <<0, 1>>],
                              [sym |-> "b", t |-> <<1, 2>>],
                              [sym |-> " ", t |-> <<1, 1>>],
                              [sym |-> "c", t |-> <<3, 2>>] >>)

\* the three-chunk scenario has run to its end
C9_Witness ==
    /\ pc = "return"
    /\ chunks = << <<1, 1>>, <<1, 2>>, <<2, 1>> >>
    /\ Len(calls) = 3
    /\ calls[1].answer = Text(<<"a", "b">>)
    /\ calls[2].answer = UnknownValueError
    /\ calls[3].answer = Text(<<"c">>)
    /\ Len(char_times) = 4

\* C10: chunks go through the scratch file one at a time, in order: while
\* chunk idx is being read, measured, recognized and aligned the file, the
\* recorded audio and the measured samples are chunk idx's own, every chunk
\* so far was sent to the recognizer exactly once, and the file is only
\* rewritten at the loop head, after the previous chunk was recognized and
\* aligned.
C10_OneChunkAtATime ==
    /\ []( /\ pc \in {"record", "load", "recognize", "align"} => scratch = idx
           /\ pc \in {"load", "recognize", "align"} => audio_data = idx
           /\ pc \in {"recognize", "align"} =>
                 y = idx /\ chunk_duration = chunks[idx]
           /\ [k \in 1..Len(calls) |-> calls[k].audio]
                 = [k \in 1..(IF pc \in {"align", "for", "return"}
                                THEN idx ELSE idx - 1) |-> k] )
    /\ [][ scratch' # scratch =>
             /\ pc = "for"
             /\ Len(calls) = idx
             /\ scratch' = idx + 1 ]_vars

\* three chunks went through the scratch file
C10_Witness ==
    /\ pc = "return"
    /\ idx = 3
    /\ scratch = 3
    /\ Len(calls) = 3
====
